---- MODULE Spec2Model ----
(***************************************************************************)
(* Model of the S&P 500 moving-average crossover backtest.                 *)
(*                                                                         *)
(* The run of main.py is modelled as one sequential process:               *)
(*   calculate_moving_averages -> generate_signals -> buy_and_hold ->      *)
(*   ma_crossover_strategy (loop) -> prepare_strategy_data (loop).         *)
(* An uncaught Python exception ends the run in pc = "error".              *)
(*                                                                         *)
(* Numbers.  A Python float is modelled by a rational <<n, d>> in lowest   *)
(* terms with d > 0; NaN / None is the pair <<0, 0>>.  The float products  *)
(* and quotients of the strategies are rounded to nearest, ties to even,   *)
(* on a significand of FloatBits bits (a double has 53); the exponent is   *)
(* unbounded, so overflow to inf and underflow are outside the model.  The *)
(* rolling means are kept exact.                                           *)
(*                                                                         *)
(* Input.  The downloaded Close column is a flat history at PrefixClose    *)
(* for the indices below VarStart followed by a chosen tail: the close at  *)
(* index 199 is the flat price or one above it, the later closes are any   *)
(* of Prices, so that the two moving averages cross inside the tail.       *)
(***************************************************************************)
EXTENDS Integers, Sequences, FiniteSets, TLC

(* ------------------------------ bounds --------------------------------- *)
MaxLen == 203
MaxPrice == 9
FloatBits == 10

(* ------------------------- program constants --------------------------- *)
ShortWindow == 50
LongWindow == 200
InitialInvestment == 10000
BhEntryIndex_Early == LongWindow - 1
BhEntryIndex == 200
ScanStart_Late == LongWindow + 1
ScanStart == 200
BhValueStart == 200
MaValueStart == 200
ReplayStart == 201
ReplayInitialValue == 10000

(* ------------------------------ input ---------------------------------- *)
Prices == {-1, 0} \cup ((MaxPrice - 4)..MaxPrice)
PrefixClose == MaxPrice - 2
VarStart == LongWindow - 1
FirstPrices == {PrefixClose, PrefixClose + 1}
Lengths == {0, 1, ShortWindow, LongWindow - 1} \cup (LongWindow..MaxLen)

VARIABLES
    len,            \* len(data)
    tail,           \* Close at the indices VarStart .. len-1
    pc,             \* position of main()
    err,            \* exception that ended the run, or "none"
    MA50, MA200,    \* columns added by calculate_moving_averages
    Signal,         \* column added by generate_signals
    bh_results,     \* dict returned by buy_and_hold
    i,              \* loop index of ma_crossover_strategy
    cash, shares, in_market, transactions,   \* locals of ma_crossover_strategy
    ma_results,     \* dict returned by ma_crossover_strategy
    BH_Value, MA_Value,                       \* columns of prepare_strategy_data
    ps_i, current_value, ps_in_market, ps_shares,  \* locals of prepare_strategy_data
    ps_transitions  \* history: the transitions the replay performed

dataVars == <<len, tail>>
frameVars == <<MA50, MA200, Signal>>
maVars == <<i, cash, shares, in_market, transactions, ma_results>>
psVars == <<BH_Value, MA_Value, ps_i, current_value, ps_in_market, ps_shares,
            ps_transitions>>
vars == <<len, tail, pc, err, MA50, MA200, Signal, bh_results,
          i, cash, shares, in_market, transactions, ma_results,
          BH_Value, MA_Value, ps_i, current_value, ps_in_market, ps_shares,
          ps_transitions>>

Index == 0..(len - 1)

(* ---------------------------- float values ----------------------------- *)
NaN == <<0, 0>>
IsNaN(x) == x[2] = 0

Abs(n) == IF n < 0 THEN -n ELSE n

RECURSIVE GCD(_, _)
GCD(a, b) == IF b = 0 THEN a ELSE GCD(b, a % b)

\* n / d in lowest terms, d # 0
Norm(n, d) ==
    LET g == GCD(Abs(n), Abs(d))
        s == IF d < 0 THEN -1 ELSE 1
    IN  <<(s * n) \div g, (s * d) \div g>>

Num(n) == <<n, 1>>

\* the binary exponent e with 2^(FloatBits-1) <= (n/d) / 2^e < 2^FloatBits
RECURSIVE FlExp(_, _)
FlExp(n, d) ==
    IF n >= d * 2^FloatBits THEN FlExp(n, 2 * d) + 1
    ELSE IF n < d * 2^(FloatBits - 1) THEN FlExp(2 * n, d) - 1
    ELSE 0

\* n / d rounded to the nearest integer, ties to even (n >= 0, d > 0)
RoundHalfEven(n, d) ==
    LET q == n \div d
        r == n % d
    IN  IF 2 * r > d \/ (2 * r = d /\ q % 2 = 1) THEN q + 1 ELSE q

\* the float nearest to the exact value n / d (d > 0)
Fl(n, d) ==
    IF n = 0 THEN <<0, 1>>
    ELSE LET a == Abs(n)
             e == FlExp(a, d)
             m == IF e >= 0 THEN RoundHalfEven(a, d * 2^e)
                            ELSE RoundHalfEven(a * 2^(-e), d)
             s == IF n < 0 THEN -1 ELSE 1
         IN  IF e >= 0 THEN Norm(s * m * 2^e, 1) ELSE Norm(s * m, 2^(-e))

\* float product x * y
Mul(x, y) ==
    IF IsNaN(x) \/ IsNaN(y) THEN NaN ELSE Fl(x[1] * y[1], x[2] * y[2])

\* float quotient x / y; y # 0: Python raises ZeroDivisionError before this
Div(x, y) ==
    IF IsNaN(x) \/ IsNaN(y) THEN NaN
    ELSE IF y[1] < 0 THEN Fl(-(x[1] * y[2]), x[2] * (-y[1]))
    ELSE Fl(x[1] * y[2], x[2] * y[1])
IsZero(x) == ~IsNaN(x) /\ x[1] = 0

\* comparisons: any comparison with NaN is False
Gt(x, y) == ~IsNaN(x) /\ ~IsNaN(y) /\ x[1] * y[2] > y[1] * x[2]
Lt(x, y) == ~IsNaN(x) /\ ~IsNaN(y) /\ x[1] * y[2] < y[1] * x[2]
Ge(x, y) == ~IsNaN(x) /\ ~IsNaN(y) /\ x[1] * y[2] >= y[1] * x[2]
Le(x, y) == ~IsNaN(x) /\ ~IsNaN(y) /\ x[1] * y[2] =< y[1] * x[2]

(* --------------------------- the Close column -------------------------- *)
\* data["Close"].iloc[k], as an integer price
Close(k) == IF k < VarStart THEN PrefixClose ELSE tail[k - VarStart + 1]

\* to_scalar(data["Close"].iloc[k])
ClosePrice(k) == Num(Close(k))

RECURSIVE TailSum(_, _)
TailSum(lo, hi) == IF lo > hi THEN 0 ELSE Close(hi) + TailSum(lo, hi - 1)

\* sum of Close over lo..hi (the flat history contributes PrefixClose each)
WindowSum(lo, hi) ==
    LET flatHi == IF hi < VarStart THEN hi ELSE VarStart - 1
        flatN  == IF flatHi < lo THEN 0 ELSE flatHi - lo + 1
        varLo  == IF lo < VarStart THEN VarStart ELSE lo
    IN  flatN * PrefixClose + TailSum(varLo, hi)

(* ------------------- calculate_moving_averages ------------------------- *)
\* variant: rolling(window=w, min_periods=1), the mean of a partial window
RollingMean_MinPeriods1(w, k) ==
    IF k < w - 1 THEN Norm(WindowSum(0, k), k + 1)
                 ELSE Norm(WindowSum(k - w + 1, k), w)

\* data["Close"].rolling(window=w).mean() at index k
RollingMean(w, k) ==
    IF k < w - 1 THEN NaN ELSE Norm(WindowSum(k - w + 1, k), w)

calculate_moving_averages ==
    /\ pc = "calculate_moving_averages"
    /\ MA50' = [k \in Index |-> RollingMean(ShortWindow, k)]
    /\ MA200' = [k \in Index |-> RollingMean(LongWindow, k)]
    /\ pc' = "generate_signals"
    /\ UNCHANGED <<dataVars, err, Signal, bh_results, maVars, psVars>>

(* --------------------------- generate_signals -------------------------- *)
\* col.shift(1) at index k
Shift1(col, k) == IF k = 0 THEN NaN ELSE col[k - 1]

\* variant: the previous-day test of the Buy mask written with < instead of <=
BuyMask_Strict(k) ==
    /\ Gt(MA50[k], MA200[k])
    /\ Lt(Shift1(MA50, k), Shift1(MA200, k))

BuyMask(k) ==
    /\ Gt(MA50[k], MA200[k])
    /\ Le(Shift1(MA50, k), Shift1(MA200, k))

SellMask(k) ==
    /\ Lt(MA50[k], MA200[k])
    /\ Ge(Shift1(MA50, k), Shift1(MA200, k))

\* Signal = 0, then .loc[buy mask] = 1, then .loc[sell mask] = -1
SignalAt(k) == IF SellMask(k) THEN -1 ELSE IF BuyMask(k) THEN 1 ELSE 0

generate_signals ==
    /\ pc = "generate_signals"
    /\ Signal' = [k \in Index |-> SignalAt(k)]
    /\ pc' = "buy_and_hold"
    /\ UNCHANGED <<dataVars, err, MA50, MA200, bh_results, maVars, psVars>>

(* ------------------------------ buy_and_hold --------------------------- *)
NoResults == [final_value |-> NaN, shares |-> NaN]

buy_and_hold ==
    /\ pc = "buy_and_hold"
    /\ IF BhEntryIndex >= len
         THEN \* data["Close"].iloc[200] is out of bounds
              /\ pc' = "error" /\ err' = "IndexError"
              /\ UNCHANGED bh_results
         ELSE IF Close(BhEntryIndex) = 0
         THEN /\ pc' = "error" /\ err' = "ZeroDivisionError"
              /\ UNCHANGED bh_results
         ELSE LET sh == Div(Num(InitialInvestment), ClosePrice(BhEntryIndex))
              IN  /\ bh_results' = [final_value |-> Mul(sh, ClosePrice(len - 1)),
                                    shares |-> sh]
                  /\ pc' = "ma_crossover_strategy"
                  /\ UNCHANGED err
    /\ UNCHANGED <<dataVars, frameVars, maVars, psVars>>

(* ------------------------- ma_crossover_strategy ----------------------- *)
\* variant: the Buy branch without its position guard
BuyCond_NoGuard(signal, in_mkt) == signal = 1

\* "if signal == 1 and not in_market"
BuyCond(signal, in_mkt) == signal = 1 /\ ~in_mkt

\* variant: the Sell branch without its position guard
SellCond_NoGuard(signal, in_mkt) == signal = -1

\* "elif signal == -1 and in_market"
SellCond(signal, in_mkt) == signal = -1 /\ in_mkt

\* the entry appended to transactions
Transaction(date, action, price, sh, value) ==
    [date |-> date, action |-> action, price |-> price, shares |-> sh,
     value |-> value]

\* variant: the cash test written with >= instead of >
FinalValue_NonNegCash(final_cash, final_shares, final_price) ==
    IF Ge(final_cash, Num(0)) THEN final_cash ELSE Mul(final_shares, final_price)

\* "final_cash if final_cash > 0 else final_shares * final_price"
FinalValue(final_cash, final_shares, final_price) ==
    IF Gt(final_cash, Num(0)) THEN final_cash ELSE Mul(final_shares, final_price)

ma_crossover_strategy ==
    /\ pc = "ma_crossover_strategy"
    /\ cash' = Num(InitialInvestment)
    /\ shares' = Num(0)
    /\ in_market' = FALSE
    /\ transactions' = <<>>
    /\ i' = ScanStart
    /\ pc' = "ma_crossover_loop"
    /\ UNCHANGED <<dataVars, frameVars, err, bh_results, ma_results, psVars>>

ma_crossover_step ==
    /\ pc = "ma_crossover_loop"
    /\ i < len
    /\ LET price  == ClosePrice(i)
           signal == Signal[i]
       IN  IF BuyCond(signal, in_market)
             THEN IF IsZero(price)
                    THEN /\ pc' = "error" /\ err' = "ZeroDivisionError"
                         /\ UNCHANGED <<i, cash, shares, in_market, transactions>>
                    ELSE LET sh == Div(cash, price)
                         IN  /\ shares' = sh
                             /\ cash' = Num(0)
                             /\ in_market' = TRUE
                             /\ transactions' = Append(transactions,
                                    Transaction(i, "BUY", price, sh, Mul(sh, price)))
                             /\ i' = i + 1
                             /\ UNCHANGED <<pc, err>>
           ELSE IF SellCond(signal, in_market)
             THEN LET c == Mul(shares, price)
                  IN  /\ cash' = c
                      /\ shares' = Num(0)
                      /\ in_market' = FALSE
                      /\ transactions' = Append(transactions,
                             Transaction(i, "SELL", price, Num(0), c))
                      /\ i' = i + 1
                      /\ UNCHANGED <<pc, err>>
           ELSE /\ i' = i + 1
                /\ UNCHANGED <<pc, err, cash, shares, in_market, transactions>>
    /\ UNCHANGED <<dataVars, frameVars, bh_results, ma_results, psVars>>

ma_crossover_return ==
    /\ pc = "ma_crossover_loop"
    /\ i >= len
    /\ IF len = 0
         THEN \* data["Close"].iloc[-1] on an empty frame
              /\ pc' = "error" /\ err' = "IndexError"
              /\ UNCHANGED ma_results
         ELSE /\ ma_results' = [final_value |->
                                  FinalValue(cash, shares, ClosePrice(len - 1))]
              /\ pc' = "prepare_strategy_data"
              /\ UNCHANGED err
    /\ UNCHANGED <<dataVars, frameVars, bh_results, i, cash, shares, in_market,
                   transactions, psVars>>

(* ------------------------- prepare_strategy_data ----------------------- *)
\* "if prev_signal == 1 and not in_market"
PsBuyCond(prev_signal, in_mkt) == prev_signal = 1 /\ ~in_mkt

\* "elif prev_signal == -1 and in_market"
PsSellCond(prev_signal, in_mkt) == prev_signal = -1 /\ in_mkt

\* variant: the replay trades at the current close
PsTradePrice_Curr(k) == ClosePrice(k)

\* prev_close: the close at which step k trades
PsTradePrice(k) == ClosePrice(k - 1)

\* variant: an open position is carried at its cost, never marked to market
PsEquity_Stale(in_mkt, sh, curr_close, value) == value

\* the value written to MA_Value at curr_idx
PsEquity(in_mkt, sh, curr_close, value) ==
    IF in_mkt THEN Mul(sh, curr_close) ELSE value

\* BH_Value: None before day 200, bh_shares * price from then on
BhValueAt(k, bh_shares) ==
    IF k < BhValueStart THEN NaN ELSE Mul(bh_shares, ClosePrice(k))

prepare_strategy_data ==
    /\ pc = "prepare_strategy_data"
    /\ IF MaValueStart >= len
         THEN \* sp500_data.index[200] is out of bounds
              /\ pc' = "error" /\ err' = "IndexError"
              /\ UNCHANGED psVars
         ELSE /\ BH_Value' = [k \in Index |-> BhValueAt(k, bh_results.shares)]
              /\ MA_Value' = [k \in Index |->
                                IF k = MaValueStart THEN Num(ReplayInitialValue)
                                                    ELSE NaN]
              /\ current_value' = Num(ReplayInitialValue)
              /\ ps_in_market' = FALSE
              /\ ps_shares' = Num(0)
              /\ ps_i' = ReplayStart
              /\ ps_transitions' = <<>>
              /\ pc' = "prepare_loop"
              /\ UNCHANGED err
    /\ UNCHANGED <<dataVars, frameVars, bh_results, maVars>>

prepare_step ==
    /\ pc = "prepare_loop"
    /\ ps_i < len
    /\ LET prev_signal == Signal[ps_i - 1]
           prev_close  == PsTradePrice(ps_i)
           curr_close  == ClosePrice(ps_i)
       IN  IF PsBuyCond(prev_signal, ps_in_market)
             THEN IF IsZero(prev_close)
                    THEN /\ pc' = "error" /\ err' = "ZeroDivisionError"
                         /\ UNCHANGED psVars
                    ELSE LET sh == Div(current_value, prev_close)
                         IN  /\ ps_shares' = sh
                             /\ ps_in_market' = TRUE
                             /\ MA_Value' = [MA_Value EXCEPT ![ps_i] =
                                    PsEquity(TRUE, sh, curr_close, current_value)]
                             /\ ps_transitions' = Append(ps_transitions,
                                    [date |-> ps_i - 1, action |-> "BUY",
                                     price |-> prev_close])
                             /\ ps_i' = ps_i + 1
                             /\ UNCHANGED <<pc, err, current_value, BH_Value>>
           ELSE IF PsSellCond(prev_signal, ps_in_market)
             THEN LET v == Mul(ps_shares, prev_close)
                  IN  /\ current_value' = v
                      /\ ps_shares' = Num(0)
                      /\ ps_in_market' = FALSE
                      /\ MA_Value' = [MA_Value EXCEPT ![ps_i] =
                             PsEquity(FALSE, Num(0), curr_close, v)]
                      /\ ps_transitions' = Append(ps_transitions,
                             [date |-> ps_i - 1, action |-> "SELL",
                              price |-> prev_close])
                      /\ ps_i' = ps_i + 1
                      /\ UNCHANGED <<pc, err, BH_Value>>
           ELSE /\ MA_Value' = [MA_Value EXCEPT ![ps_i] =
                       PsEquity(ps_in_market, ps_shares, curr_close, current_value)]
                /\ ps_i' = ps_i + 1
                /\ UNCHANGED <<pc, err, current_value, ps_in_market, ps_shares,
                               ps_transitions, BH_Value>>
    /\ UNCHANGED <<dataVars, frameVars, bh_results, maVars>>

prepare_return ==
    /\ pc = "prepare_loop"
    /\ ps_i >= len
    /\ pc' = "done"
    /\ UNCHANGED <<dataVars, frameVars, err, bh_results, maVars, psVars>>

(* -------------------------------- main --------------------------------- *)
Init ==
    /\ len \in Lengths
    /\ tail \in [1..(IF len > VarStart THEN len - VarStart ELSE 0) -> Prices]
    /\ len > VarStart => tail[1] \in FirstPrices
    /\ pc = "calculate_moving_averages"
    /\ err = "none"
    /\ MA50 = <<>> /\ MA200 = <<>> /\ Signal = <<>>
    /\ bh_results = NoResults
    /\ i = 0 /\ cash = NaN /\ shares = NaN /\ in_market = FALSE
    /\ transactions = <<>>
    /\ ma_results = [final_value |-> NaN]
    /\ BH_Value = <<>> /\ MA_Value = <<>>
    /\ ps_i = 0 /\ current_value = NaN /\ ps_in_market = FALSE /\ ps_shares = NaN
    /\ ps_transitions = <<>>

Next ==
    \/ calculate_moving_averages
    \/ generate_signals
    \/ buy_and_hold
    \/ ma_crossover_strategy
    \/ ma_crossover_step
    \/ ma_crossover_return
    \/ prepare_strategy_data
    \/ prepare_step
    \/ prepare_return

Spec == Init /\ [][Next]_vars

(* ======================================================================= *)
(*                               properties                                *)
(* ======================================================================= *)
Finished == pc \in {"done", "error"}
AllPositive == \A k \in 1..Len(tail) : tail[k] > 0
Last == len - 1

\* the date, action and price of every entry of a log
LogView(log) ==
    [n \in 1..Len(log) |->
        [date |-> log[n].date, action |-> log[n].action, price |-> log[n].price]]

BothDefined(k) == ~IsNaN(MA50[k]) /\ ~IsNaN(MA200[k])
\* the first index at which both moving averages are defined
FirstDefined ==
    CHOOSE k \in Index : BothDefined(k) /\ \A j \in 0..(k - 1) : ~BothDefined(j)

(* ------------------------------- C1 ------------------------------------ *)
\* C1: the transaction log of ma_crossover_strategy strictly alternates
\* BUY, SELL, BUY, ... and, when non-empty, starts with BUY.
C1_Alternation ==
    \A n \in 1..Len(transactions) :
        transactions[n].action = (IF n % 2 = 1 THEN "BUY" ELSE "SELL")

C1_Witness ==
    /\ Len(transactions) >= 2
    /\ \E k \in ScanStart..(i - 1) :
          Signal[k] # 0 /\ \A n \in 1..Len(transactions) : transactions[n].date # k

(* ------------------------------- C2 ------------------------------------ *)
\* C2: for a series shorter than the long window the run completes without
\* an error, both equity curves are undefined everywhere and the log is empty.
C2_ShortSeriesIsEmptyOutcome ==
    (len < LongWindow /\ Finished) =>
        /\ err = "none"
        /\ DOMAIN BH_Value = Index /\ \A k \in Index : IsNaN(BH_Value[k])
        /\ DOMAIN MA_Value = Index /\ \A k \in Index : IsNaN(MA_Value[k])
        /\ transactions = <<>>

(* ------------------------------- C3 ------------------------------------ *)
\* C3 (as stated): the transaction log contains exactly the transitions the
\* equity-curve replay performs, with the same dates and prices.
C3_LogEqualsReplay ==
    pc = "done" => LogView(transactions) = ps_transitions

BeforeDate(log, d) == SelectSeq(log, LAMBDA t : t.date < d)

\* C3 (amended): ma_crossover_strategy scans 200..len-1 and acts on the
\* same-day signal at the same-day close, logging the entry with that date and
\* nothing else; the replay, acting on signal(i-1) at close(i-1), has performed
\* exactly the logged transitions dated before the index it last read, so at
\* the end exactly those dated before the final index.
C3_LogMatchesReplayBeforeLast ==
    /\ \A n \in 1..Len(transactions) :
          LET t == transactions[n]
          IN  /\ t.date \in LongWindow..Last
              /\ t.date < i
              /\ Signal[t.date] = (IF t.action = "BUY" THEN 1 ELSE -1)
              /\ t.price = Num(Close(t.date))
              /\ n > 1 => transactions[n - 1].date < t.date
    /\ pc \in {"prepare_loop", "done"} =>
          ps_transitions = LogView(BeforeDate(transactions, ps_i - 1))
    /\ pc = "done" =>
          /\ ps_i = len
          /\ Len(transactions) - Len(ps_transitions) \in {0, 1}
          /\ Len(transactions) > Len(ps_transitions) =>
                transactions[Len(transactions)].date = Last

C3_Witness ==
    /\ pc = "done"
    /\ Len(ps_transitions) >= 1
    /\ Len(transactions) = Len(ps_transitions) + 1

(* ------------------------------- C4 ------------------------------------ *)
\* C4 (as stated): buy-and-hold invests the full initial capital at the close
\* of the first index at which both moving averages are defined.
C4_EntryAtFirstDefined ==
    ~IsNaN(bh_results.shares) =>
        bh_results.shares = Div(Num(InitialInvestment), Num(Close(FirstDefined)))

\* C4 (amended): buy-and-hold enters once, at index 200, one past the first
\* index (199) at which both moving averages are defined, investing the full
\* initial capital at close(200); the crossover simulation starts FLAT with
\* full cash at index 200.
C4_EntryAtIndex200 ==
    /\ (pc = "buy_and_hold" /\ len >= LongWindow) => FirstDefined = LongWindow - 1
    /\ (pc = "buy_and_hold" /\ len < LongWindow) => \A k \in Index : ~BothDefined(k)
    /\ ~IsNaN(bh_results.shares) =>
          /\ len > LongWindow
          /\ bh_results.shares = Div(Num(InitialInvestment), Num(Close(LongWindow)))
          /\ bh_results.final_value = Mul(bh_results.shares, Num(Close(Last)))
    /\ pc = "ma_crossover_loop" =>
          /\ i >= LongWindow
          /\ i = LongWindow =>
                /\ ~in_market /\ transactions = <<>>
                /\ cash = Num(InitialInvestment) /\ shares = Num(0)

C4_Witness ==
    /\ pc = "ma_crossover_loop" /\ i = LongWindow
    /\ Close(LongWindow - 1) # Close(LongWindow)
    /\ ~IsNaN(bh_results.shares)

(* ------------------------------- C5 ------------------------------------ *)
\* C5: for a series of exactly 200 points the run completes without error,
\* buy-and-hold equity is defined at exactly one point and the log is empty.
C5_Length200Completes ==
    (len = LongWindow /\ Finished) =>
        /\ err = "none"
        /\ DOMAIN BH_Value = Index
        /\ Cardinality({k \in Index : ~IsNaN(BH_Value[k])}) = 1
        /\ transactions = <<>>

(* ------------------------------- C6 ------------------------------------ *)
\* C6: with positive closes the reported final value is shares * last close
\* when the position is IN_MARKET at the final index and cash when FLAT.
C6_FinalValueByState ==
    (~IsNaN(ma_results.final_value) /\ AllPositive) =>
        ma_results.final_value =
            (IF in_market THEN Mul(shares, Num(Close(Last))) ELSE cash)

C6_Witness ==
    /\ ~IsNaN(ma_results.final_value) /\ AllPositive
    /\ in_market
    /\ transactions[Len(transactions)].action = "BUY"
    /\ ma_results.final_value # Num(InitialInvestment)

(* ------------------------------- C7 ------------------------------------ *)
NonNegative(x) == IsNaN(x) \/ x[1] >= 0

\* C7: a zero or negative close met where cash is converted to shares ends
\* the run with InvalidPriceError; no share count is ever negative.
C7_InvalidPriceError ==
    /\ err \in {"none", "IndexError", "InvalidPriceError"}
    /\ NonNegative(bh_results.shares)
    /\ NonNegative(shares)
    /\ NonNegative(ps_shares)
    /\ \A n \in 1..Len(transactions) :
          transactions[n].action = "BUY" => transactions[n].price[1] > 0
    /\ (pc \notin {"calculate_moving_averages", "generate_signals", "buy_and_hold"}
           /\ len > LongWindow /\ Close(LongWindow) =< 0)
          => err = "InvalidPriceError"

(* ------------------------------- C8 ------------------------------------ *)
\* C8 (as stated): both equity curves are defined at every index from the
\* first index with both moving averages defined, and undefined before it.
C8_DefinedFromFirstDefined ==
    pc = "done" =>
        \A k \in Index :
            /\ IsNaN(BH_Value[k]) <=> k < FirstDefined
            /\ IsNaN(MA_Value[k]) <=> k < FirstDefined

\* C8 (amended): after the replay has processed index k > 200 the equity
\* recorded at k is shares * close(k) if the state is then IN_MARKET and the
\* held cash value otherwise; both curves are defined at every index from 200
\* on and undefined at every index below 200 (index 199 included).
C8_EquityCurve ==
    /\ (pc \in {"prepare_loop", "done"} /\ ps_i > LongWindow + 1) =>
          MA_Value[ps_i - 1] =
              (IF ps_in_market THEN Mul(ps_shares, Num(Close(ps_i - 1)))
                               ELSE current_value)
    /\ pc \in {"prepare_loop", "done"} =>
          /\ MA_Value[LongWindow] = Num(InitialInvestment)
          /\ \A k \in Index :
                /\ IsNaN(BH_Value[k]) <=> k < LongWindow
                /\ k >= LongWindow => BH_Value[k] = Mul(bh_results.shares, Num(Close(k)))
                /\ IsNaN(MA_Value[k]) <=> (k < LongWindow \/ k >= ps_i)
    /\ pc = "done" => ps_i = len

C8_Witness ==
    /\ pc = "done"
    /\ ps_in_market
    /\ Len(ps_transitions) = 1
    /\ ps_transitions[1].date < Last - 1
    /\ MA_Value[Last] # MA_Value[Last - 1]

(* ------------------------------- C9 ------------------------------------ *)
\* x < y and x <= y on defined values
Less(x, y) == x[1] * y[2] < y[1] * x[2]
LessEq(x, y) == x[1] * y[2] =< y[1] * x[2]

UpCross(k) ==
    /\ k >= 1 /\ BothDefined(k) /\ BothDefined(k - 1)
    /\ Less(MA200[k], MA50[k]) /\ LessEq(MA50[k - 1], MA200[k - 1])

DownCross(k) ==
    /\ k >= 1 /\ BothDefined(k) /\ BothDefined(k - 1)
    /\ Less(MA50[k], MA200[k]) /\ LessEq(MA200[k - 1], MA50[k - 1])

\* C9: in the frame generate_signals returns, every index carries exactly one of Buy (1), Sell (-1), None (0): Buy
\* iff an upward cross, Sell iff a downward cross, None otherwise (index 0 and
\* undefined averages included); Buy and Sell never hold together.
C9_SignalLabels ==
    pc = "buy_and_hold" =>
        /\ DOMAIN Signal = Index
        /\ \A k \in Index :
              /\ Signal[k] \in {1, -1, 0}
              /\ Signal[k] = 1 <=> UpCross(k)
              /\ Signal[k] = -1 <=> DownCross(k)
              /\ ~(UpCross(k) /\ DownCross(k))
              /\ (k = 0 \/ ~BothDefined(k) \/ ~BothDefined(k - 1)) => Signal[k] = 0

C9_Witness ==
    /\ pc = "buy_and_hold"
    /\ \E k \in Index : Signal[k] = 1 /\ MA50[k - 1] = MA200[k - 1]
    /\ \E k \in Index : Signal[k] = -1
    /\ \E k \in Index : k >= LongWindow /\ Signal[k] = 0 /\ MA50[k] # MA200[k]

(* ------------------------------- C10 ----------------------------------- *)
\* C10: in both simulations shares and cash change only in a step that
\* performs a Buy or Sell transition: a step that leaves the position state
\* as it was leaves the share count, the cash and the log as they were.
C10_Conservation ==
    [][ /\ (pc = "ma_crossover_loop" /\ in_market' = in_market) =>
              (shares' = shares /\ cash' = cash /\ transactions' = transactions)
        /\ (pc = "prepare_loop" /\ ps_in_market' = ps_in_market) =>
              (ps_shares' = ps_shares /\ current_value' = current_value
                  /\ ps_transitions' = ps_transitions) ]_vars

C10_Witness ==
    /\ pc = "prepare_loop"
    /\ ps_in_market /\ in_market
    /\ Len(ps_transitions) = 1 /\ ps_transitions[1].date < ps_i - 2
    /\ Len(transactions) = 1
    /\ \E k \in (transactions[1].date + 1)..Last : Signal[k] = 1

(* ------------------------------- C11 ----------------------------------- *)
\* C11 (as stated): with positive closes the final value returned by
\* ma_crossover_strategy equals the last entry of the MA_Value curve, also
\* when a Buy or Sell signal falls on the final index.
C11_FinalValueEqualsCurve ==
    (pc = "done" /\ AllPositive) => ma_results.final_value = MA_Value[Last]

\* the log ends with a Buy executed on the final index
BuyOnLast ==
    /\ Len(transactions) > 0
    /\ transactions[Len(transactions)].action = "BUY"
    /\ transactions[Len(transactions)].date = Last

\* C11 (amended): with positive closes the returned final value equals the
\* last MA_Value entry unless a Buy executes on the final index; then the
\* curve's last entry is the cash c held before that Buy and the returned
\* value is the float (c / last close) * last close, equal to c only up to
\* rounding.
C11_FinalValueMatchesCurve ==
    (pc = "done" /\ AllPositive) =>
        ma_results.final_value =
            (IF BuyOnLast
               THEN Mul(Div(MA_Value[Last], Num(Close(Last))), Num(Close(Last)))
               ELSE MA_Value[Last])

C11_Witness ==
    /\ pc = "done" /\ AllPositive
    /\ BuyOnLast
    /\ ~ps_in_market

(* ------------------------------- C12 ----------------------------------- *)
\* C12: generate_signals produces no Buy or Sell below index 200, because a
\* signal at k needs the 200-point average at k-1 and at k; so when the scan
\* of ma_crossover_strategy, started at 200, has ended, every index carrying
\* a signal has been scanned.
C12_NoSignalBelowScanStart ==
    /\ pc = "buy_and_hold" =>
          \A k \in Index :
              /\ k < LongWindow => Signal[k] = 0
              /\ Signal[k] # 0 =>
                    k >= 1 /\ ~IsNaN(MA200[k]) /\ ~IsNaN(MA200[k - 1])
    /\ pc = "prepare_strategy_data" =>
          \A k \in Index : Signal[k] # 0 => k \in LongWindow..(i - 1)

C12_Witness ==
    /\ pc = "prepare_strategy_data"
    /\ Less(MA200[LongWindow - 1], MA50[LongWindow - 1])
    /\ Signal[LongWindow - 1] = 0
    /\ Signal[LongWindow] # 0

====
